---- MODULE Spec2Model ----
(***************************************************************************)
(* State-machine model of ufoym/school:                                    *)
(*   src/get_geo.py    tiered geocoding with an on-disk cache              *)
(*   src/parse_data.py fee/class parsing, record expansion, ingest rules   *)
(* The source strings are Chinese; this module writes them in pinyin,      *)
(* because the module text has to be ASCII.                                *)
(***************************************************************************)
EXTENDS Naturals, Sequences, FiniteSets, TLC

(***************************************************************************)
(* Bounds of the model.                                                    *)
(***************************************************************************)
\* longest kindergarten list of the general specification
MaxEntities == 2
\* longest kindergarten list of the checkpoint specification (SpecBatch)
MaxBatchEntities == 51
\* longest fee text of a source row, in characters
MaxFeeLen == 6
\* longest organizational-nature text of a source row, in words of NatureWords
MaxNatureWords == 4

(***************************************************************************)
(* Program constants of get_geo.py.                                        *)
(***************************************************************************)
\* HOME_ADDRESSES: the two fixed home addresses
HOME_ADDRESSES == <<"yuexiu_baoli_aitecheng_22_dong", "zhonghai_yudong_huayuan_A7_dong">>

\* PRECISE_LEVELS: xingqudian = point of interest, menpaihao = door number,
\* danyuanhao = unit, louceng = floor, fangjian = room, menzhi = gate address
PRECISE_LEVELS == <<"xingqudian", "menpaihao", "danyuanhao", "louceng", "fangjian", "menzhi">>

\* the checkpoint period of geocode_kindergartens: (i + 1) % 50 == 0
BatchSize == 50

(***************************************************************************)
(* Python values.                                                          *)
(***************************************************************************)
\* None, as a value that is no dictionary of the program
None == [none |-> TRUE]

\* the empty dictionary {}
EmptyDict == [k \in {} |-> ""]

\* d.get(f, default)
Get(d, f, default) == IF f \in DOMAIN d THEN d[f] ELSE default

\* Python truthiness of an Optional[dict]: None and {} are falsy
Truthy(d) == d # None /\ DOMAIN d # {}

\* level in PRECISE_LEVELS
InPreciseLevels(level) == \E j \in 1..Len(PRECISE_LEVELS) : PRECISE_LEVELS[j] = level

\* d[key] = value on a dictionary
Put(d, key, value) == [k \in DOMAIN d \cup {key} |-> IF k = key THEN value ELSE d[k]]

(***************************************************************************)
(* The data the model draws from.                                          *)
(***************************************************************************)
\* the five fields save_geocodes keeps
CanonicalFields == {"province", "city", "district", "location", "level"}

\* precision tags the service answers with: one on the allow-list, one not
\* (daolu = road)
Levels == {"xingqudian", "daolu"}

\* kindergarten names of data/school.json ("" = missing or empty name)
Names == {"", "youeryuan_jia", "youeryuan_yi"}

\* kindergarten addresses of data/school.json ("" = missing or empty address)
Addresses == {"", "huangpu_dadao_1_hao"}

\* the entities of data/school.json, by the two fields get_geo.py reads
Entities == [name : Names, address : Addresses]

\* the keys of the home addresses
HomeKeys == {HOME_ADDRESSES[j] : j \in 1..Len(HOME_ADDRESSES)}

\* every key the cache can hold
Keys == HomeKeys \cup (Names \ {""})

\* geocodes[0] of a successful response to a query: the raw candidate, with the
\* five canonical fields and the formatted address; the coordinates stand for
\* the place the query text names
Geocode(q, level) ==
    [formatted_address |-> q, province |-> "guangdong", city |-> "guangzhou",
     district |-> "huangpu", location |-> q, level |-> level]

\* an entry of data/geo.json written by an earlier run
CachedEntry(level) ==
    [province |-> "guangdong", city |-> "guangzhou", district |-> "huangpu",
     location |-> "cached", level |-> level]

\* the mappings data/geo.json may hold when a run starts
InitialCaches ==
    UNION {[D -> {CachedEntry(l) : l \in Levels}] : D \in SUBSET Keys}

(***************************************************************************)
(* GeoCache: load_existing_geocodes and save_geocodes.                     *)
(***************************************************************************)
\* the file data/geo.json: readable JSON with a mapping, or missing/corrupt
File(content) == [readable |-> TRUE, content |-> content]
UnreadableFile == [readable |-> FALSE, content |-> EmptyDict]

\* load_existing_geocodes: the mapping of the file, {} when it is missing or
\* cannot be read
load_existing_geocodes(file) == IF file.readable THEN file.content ELSE EmptyDict

\* the projection of one entry in save_geocodes: an entry with a 'location'
\* is cut to the five fields (missing ones become ''), any other is kept as is
CleanEntry(data) ==
    IF "location" \in DOMAIN data
    THEN [f \in CanonicalFields |-> Get(data, f, "")]
    ELSE data

\* save_geocodes: the file after the call
save_geocodes(geocodes) == File([k \in DOMAIN geocodes |-> CleanEntry(geocodes[k])])

(***************************************************************************)
(* State of one run of get_geo.py main().                                  *)
(***************************************************************************)
VARIABLES
    disk,            \* the file data/geo.json
    geocodes,        \* the in-memory mapping of the running pass
    pc,              \* position of the single thread of control
    h,               \* geocode_home_addresses: index of the loop over HOME_ADDRESSES
    i,               \* geocode_kindergartens: the loop index of enumerate
    kg,              \* geocode_kindergartens: the entity of the current iteration
    existing_data,   \* geocode_kindergartens: geocodes.get(name)
    name_result,     \* geocode_with_fallback: result of the name query
    address_result,  \* geocode_with_fallback: result of the address query
    geocode_result,  \* value returned by geocode_with_fallback
    site,            \* which call of get_geocode is running: home, name, address
    query,           \* get_geocode: its address argument
    resp,            \* get_geocode: the value its try block returns
    exit_path,       \* get_geocode: how the try block was left
    start,           \* history: the file when the run started
    called,          \* history: an external request has been sent in this run
    calls,           \* history: the queries the running resolution has sent
    undelayed,       \* history: requests sent since the last time.sleep(0.4)
    unsaved_age,     \* history: kindergarten iterations ended since the oldest
                     \* result not yet saved was stored, that one included (0: none)
    seen,            \* history: the names of the entities the loop has taken
    \* parse_data.py
    ppc,             \* position of parse_data.py in the handling of one source row
    office_nature,   \* the cleaned organizational-nature text of the row
    is_inclusive,    \* the inclusiveness flag each ingest path gives the row
    fee_text,        \* the cleaned fee text of the row
    fee_classes,     \* result of parse_multi_class_fee
    base_data,       \* the record handed to create_kindergarten_entries
    entries          \* create_kindergarten_entries: the list it builds

geo_vars ==
    <<disk, geocodes, pc, h, i, kg, existing_data, name_result, address_result,
      geocode_result, site, query, resp, exit_path, start, called, calls, undelayed,
      unsaved_age, seen>>

parse_vars ==
    <<ppc, office_nature, is_inclusive, fee_text, fee_classes, base_data, entries>>

vars == <<geo_vars, parse_vars>>

\* parse_data.py is not running
ParseIdle ==
    /\ ppc = "idle"
    /\ office_nature = <<>>
    /\ is_inclusive = <<>>
    /\ fee_text = <<>>
    /\ fee_classes = <<>>
    /\ base_data = <<>>
    /\ entries = <<>>

\* kg before the loop has bound it
NoEntity == [name |-> "", address |-> ""]

\* the state in which main() of get_geo.py starts, data/geo.json being one
\* of files
InitFrom(files) ==
    /\ disk \in files
    /\ start = disk
    /\ geocodes = EmptyDict
    /\ pc = "main"
    /\ h = 1
    /\ i = 0
    /\ kg = NoEntity
    /\ existing_data = None
    /\ name_result = None
    /\ address_result = None
    /\ geocode_result = None
    /\ site = "none"
    /\ query = ""
    /\ resp = None
    /\ exit_path = "none"
    /\ called = FALSE
    /\ calls = <<>>
    /\ undelayed = 0
    /\ unsaved_age = 0
    /\ seen = {}
    /\ ParseIdle

\* a run may start from any cache file, or from none
Init == InitFrom({File(c) : c \in InitialCaches} \cup {UnreadableFile})

\* a wrong version of StoreResult: a failed resolution drops the old entry
StoreResultDropsOnFailure(cache, key, result) ==
    IF Truthy(result)
    THEN Put(cache, key, result)
    ELSE [k \in DOMAIN cache \ {key} |-> cache[k]]

\* if geocode_result: geocodes[key] = geocode_result
\* (both passes store a result this way)
StoreResult(cache, key, result) ==
    IF Truthy(result) THEN Put(cache, key, result) ELSE cache

(***************************************************************************)
(* get_geocode: one external request, then the delay of the finally block. *)
(***************************************************************************)
\* where get_geocode returns to
ReturnLabel(s) ==
    CASE s = "home" -> "home_ret"
      [] s = "name" -> "name_ret"
      [] s = "address" -> "address_ret"

\* the caller evaluates get_geocode(q, "guangzhou")
CallGetGeocode(s, q) ==
    /\ pc' = "request"
    /\ site' = s
    /\ query' = q

\* try: status '1' and a non-empty geocodes array: return geocodes[0]
RequestResult ==
    /\ pc = "request"
    /\ \E l \in Levels : resp' = Geocode(query, l)
    /\ exit_path' = "return_result"
    /\ pc' = "finally"

\* try: any other status, or no candidate: return None
RequestNoResult ==
    /\ pc = "request"
    /\ resp' = None
    /\ exit_path' = "return_none"
    /\ pc' = "finally"

\* a wrong version of RequestException: the exception is not caught and ends
\* the process
RequestExceptionUncaught ==
    /\ pc = "request"
    /\ resp' = None
    /\ exit_path' = "except"
    /\ pc' = "crashed"

\* except Exception (timeout, HTTP error, bad JSON): return None
RequestException ==
    /\ pc = "request"
    /\ resp' = None
    /\ exit_path' = "except"
    /\ pc' = "finally"

\* the try block of get_geocode, on any of its three ways out
GetGeocodeRequest ==
    /\ \/ RequestResult
       \/ RequestNoResult
       \/ RequestException
    /\ called' = TRUE
    /\ calls' = Append(calls, [site |-> site, query |-> query])
    /\ undelayed' = undelayed + 1
    /\ UNCHANGED <<disk, geocodes, h, i, kg, existing_data, name_result,
                   address_result, geocode_result, site, query, start, unsaved_age, seen, parse_vars>>

\* a wrong version of GetGeocodeFinally: the sleep stands at the end of the try
\* block, so the except path returns without it
GetGeocodeSleepInTry ==
    /\ pc = "finally"
    /\ undelayed' = IF exit_path = "except" THEN undelayed ELSE 0
    /\ pc' = ReturnLabel(site)
    /\ exit_path' = "none"
    /\ UNCHANGED <<disk, geocodes, h, i, kg, existing_data, name_result,
                   address_result, geocode_result, site, query, resp, start, called, calls,
                   unsaved_age, seen, parse_vars>>

\* finally: time.sleep(0.4), then the value goes back to the caller
GetGeocodeFinally ==
    /\ pc = "finally"
    /\ undelayed' = 0
    /\ pc' = ReturnLabel(site)
    /\ exit_path' = "none"
    /\ UNCHANGED <<disk, geocodes, h, i, kg, existing_data, name_result,
                   address_result, geocode_result, site, query, resp, start, called, calls,
                   unsaved_age, seen, parse_vars>>

(***************************************************************************)
(* geocode_home_addresses.                                                 *)
(***************************************************************************)
\* geocodes = load_existing_geocodes()
HomeLoad ==
    /\ pc = "main"
    /\ geocodes' = load_existing_geocodes(disk)
    /\ h' = 1
    /\ pc' = "home_loop"
    /\ UNCHANGED <<disk, i, kg, existing_data, name_result, address_result,
                   geocode_result, site, query, resp, exit_path, start, called, calls,
                   undelayed, unsaved_age, seen, parse_vars>>

\* a wrong version of HomeIsCached: the cache is not consulted
HomeNeverCached(cache, address) == FALSE

\* a wrong version of HomeIsCached: as in the kindergarten pass, only an entry
\* of acceptable level counts as cached
HomeIsCachedPrecisely(cache, address) ==
    /\ address \in DOMAIN cache
    /\ InPreciseLevels(Get(cache[address], "level", ""))

\* address in geocodes
HomeIsCached(cache, address) == address \in DOMAIN cache

\* if address in geocodes: continue
HomeCached ==
    /\ pc = "home_loop"
    /\ h <= Len(HOME_ADDRESSES)
    /\ HomeIsCached(geocodes, HOME_ADDRESSES[h])
    /\ h' = h + 1
    /\ UNCHANGED <<disk, geocodes, pc, i, kg, existing_data, name_result,
                   address_result, geocode_result, site, query, resp, exit_path,
                   start, called, calls, undelayed, unsaved_age, seen, parse_vars>>

\* geocode_result = get_geocode(address, ...)
HomeResolve ==
    /\ pc = "home_loop"
    /\ h <= Len(HOME_ADDRESSES)
    /\ ~HomeIsCached(geocodes, HOME_ADDRESSES[h])
    /\ CallGetGeocode("home", HOME_ADDRESSES[h])
    /\ UNCHANGED <<disk, geocodes, h, i, kg, existing_data, name_result,
                   address_result, geocode_result, resp, exit_path, start, called, calls,
                   undelayed, unsaved_age, seen, parse_vars>>

\* if geocode_result: geocodes[address] = geocode_result
HomeStore ==
    /\ pc = "home_ret"
    /\ geocodes' = StoreResult(geocodes, HOME_ADDRESSES[h], resp)
    /\ h' = h + 1
    /\ resp' = None
    /\ site' = "none"
    /\ query' = ""
    /\ pc' = "home_loop"
    /\ calls' = <<>>
    /\ UNCHANGED <<disk, i, kg, existing_data, name_result, address_result,
                   geocode_result, exit_path, start, called, undelayed, unsaved_age,
                   seen, parse_vars>>

\* after the loop: save_geocodes(geocodes)
HomeSave ==
    /\ pc = "home_loop"
    /\ h > Len(HOME_ADDRESSES)
    /\ disk' = save_geocodes(geocodes)
    /\ pc' = "kindergartens"
    /\ UNCHANGED <<geocodes, h, i, kg, existing_data, name_result, address_result,
                   geocode_result, site, query, resp, exit_path, start, called, calls,
                   undelayed, unsaved_age, seen, parse_vars>>

(***************************************************************************)
(* geocode_with_fallback: name first, address second, name as last resort. *)
(***************************************************************************)
\* name_result and name_result.get('level') in PRECISE_LEVELS
\* (a missing level reads as None there, as "" here: neither is on the list)
NameAcceptable(nr) == Truthy(nr) /\ InPreciseLevels(Get(nr, "level", ""))

\* step 3: the name result if there is one, else None
LastResort(nr) == IF Truthy(nr) THEN nr ELSE None

\* a wrong version of NameReturn: the address query is sent whatever the level
\* of the name result
NameReturnAlwaysAddress ==
    /\ pc = "name_ret"
    /\ name_result' = resp
    /\ resp' = None
    /\ IF kg.address # ""
       THEN /\ CallGetGeocode("address", kg.address)
            /\ UNCHANGED geocode_result
       ELSE /\ geocode_result' = LastResort(resp)
            /\ pc' = "kg_store"
            /\ UNCHANGED <<site, query>>
    /\ UNCHANGED <<disk, geocodes, h, i, kg, existing_data, address_result,
                   exit_path, start, called, calls, undelayed, unsaved_age, seen,
                   parse_vars>>

\* the name query has returned
NameReturn ==
    /\ pc = "name_ret"
    /\ name_result' = resp
    /\ resp' = None
    /\ IF NameAcceptable(resp)
       THEN /\ geocode_result' = resp
            /\ pc' = "kg_store"
            /\ UNCHANGED <<site, query>>
       ELSE IF kg.address # ""
       THEN /\ CallGetGeocode("address", kg.address)
            /\ UNCHANGED geocode_result
       ELSE /\ geocode_result' = LastResort(resp)
            /\ pc' = "kg_store"
            /\ UNCHANGED <<site, query>>
    /\ UNCHANGED <<disk, geocodes, h, i, kg, existing_data, address_result,
                   exit_path, start, called, calls, undelayed, unsaved_age, seen, parse_vars>>

\* a wrong version of AfterAddress: the name result wins over the address result
AfterAddressPrefersName(nr, ar) == IF Truthy(nr) THEN nr ELSE IF Truthy(ar) THEN ar ELSE None

\* what geocode_with_fallback returns once the address query is back
AfterAddress(nr, ar) == IF Truthy(ar) THEN ar ELSE LastResort(nr)

\* the address query has returned
AddressReturn ==
    /\ pc = "address_ret"
    /\ address_result' = resp
    /\ resp' = None
    /\ geocode_result' = AfterAddress(name_result, resp)
    /\ pc' = "kg_store"
    /\ UNCHANGED <<disk, geocodes, h, i, kg, existing_data, name_result, site,
                   query, exit_path, start, called, calls, undelayed, unsaved_age, seen, parse_vars>>

(***************************************************************************)
(* geocode_kindergartens.                                                  *)
(***************************************************************************)
\* geocodes = load_existing_geocodes(), before the loop
KgLoad ==
    /\ pc = "kindergartens"
    /\ geocodes' = load_existing_geocodes(disk)
    /\ i' = 0
    /\ unsaved_age' = 0
    /\ pc' = "kg_loop"
    /\ UNCHANGED <<disk, h, kg, existing_data, name_result, address_result,
                   geocode_result, site, query, resp, exit_path, start, called, calls,
                   undelayed, seen, parse_vars>>

\* a wrong version of CacheHit: the continue of the hit branch is missing, so
\* a precisely cached entity goes on to be resolved again
CacheHitFallsThrough(cache, name) == FALSE

\* existing_data and existing_data.get('level', '') in PRECISE_LEVELS
CacheHit(cache, name) ==
    /\ name \in DOMAIN cache
    /\ Truthy(cache[name])
    /\ InPreciseLevels(Get(cache[name], "level", ""))

\* one more iteration has ended without a save
Older(age) == IF age > 0 THEN age + 1 ELSE 0

\* the loop takes its next entity, which has no name: continue
KgSkipEmpty(ents, max) ==
    /\ pc = "kg_loop"
    /\ i < max
    /\ \E e \in ents :
        /\ e.name = ""
        /\ kg' = e
    /\ i' = i + 1
    /\ unsaved_age' = Older(unsaved_age)
    /\ UNCHANGED <<disk, geocodes, pc, h, existing_data, name_result,
                   address_result, geocode_result, site, query, resp, exit_path,
                   start, called, calls, undelayed, seen, parse_vars>>

\* the next entity is cached at an acceptable level: continue
KgCacheHit(ents, max) ==
    /\ pc = "kg_loop"
    /\ i < max
    /\ \E e \in ents :
        /\ e.name # ""
        /\ CacheHit(geocodes, e.name)
        /\ kg' = e
        /\ existing_data' = geocodes[e.name]
        /\ seen' = seen \cup {e.name}
    /\ i' = i + 1
    /\ unsaved_age' = Older(unsaved_age)
    /\ UNCHANGED <<disk, geocodes, pc, h, name_result, address_result,
                   geocode_result, site, query, resp, exit_path, start, called, calls,
                   undelayed, parse_vars>>

\* the next entity is not cached, or not precisely: geocode_with_fallback
KgResolve(ents, max) ==
    /\ pc = "kg_loop"
    /\ i < max
    /\ \E e \in ents :
        /\ e.name # ""
        /\ ~CacheHit(geocodes, e.name)
        /\ kg' = e
        /\ existing_data' = Get(geocodes, e.name, None)
        /\ CallGetGeocode("name", e.name)
        /\ seen' = seen \cup {e.name}
    /\ name_result' = None
    /\ address_result' = None
    /\ geocode_result' = None
    /\ UNCHANGED <<disk, geocodes, h, i, resp, exit_path, start, called, calls,
                   undelayed, unsaved_age, parse_vars>>

\* (i + 1) % 50 == 0
CheckpointDue(index) == (index + 1) % BatchSize = 0

\* the rest of the loop body once geocode_with_fallback has returned:
\* store the result if there is one, then the periodic save
KgStore ==
    /\ pc = "kg_store"
    /\ geocodes' = StoreResult(geocodes, kg.name, geocode_result)
    /\ IF CheckpointDue(i)
       THEN /\ disk' = save_geocodes(geocodes')
            /\ unsaved_age' = 0
       ELSE /\ disk' = disk
            /\ unsaved_age' = IF unsaved_age = 0 /\ Truthy(geocode_result)
                              THEN 1
                              ELSE Older(unsaved_age)
    /\ i' = i + 1
    /\ name_result' = None
    /\ address_result' = None
    /\ site' = "none"
    /\ query' = ""
    /\ pc' = "kg_loop"
    /\ calls' = <<>>
    /\ UNCHANGED <<h, kg, existing_data, geocode_result, resp, exit_path, start,
                   called, undelayed, seen, parse_vars>>

\* the list is exhausted: the final save_geocodes(geocodes)
KgFinish ==
    /\ pc = "kg_loop"
    /\ disk' = save_geocodes(geocodes)
    /\ unsaved_age' = 0
    /\ pc' = "done"
    /\ UNCHANGED <<geocodes, h, i, kg, existing_data, name_result, address_result,
                   geocode_result, site, query, resp, exit_path, start, called, calls,
                   undelayed, seen, parse_vars>>

(***************************************************************************)
(* Specifications.                                                         *)
(***************************************************************************)
\* the steps of a run over a list of at most max entities drawn from ents
Run(ents, max) ==
    \/ HomeLoad
    \/ HomeCached
    \/ HomeResolve
    \/ HomeStore
    \/ HomeSave
    \/ KgLoad
    \/ KgSkipEmpty(ents, max)
    \/ KgCacheHit(ents, max)
    \/ KgResolve(ents, max)
    \/ NameReturn
    \/ AddressReturn
    \/ KgStore
    \/ KgFinish
    \/ GetGeocodeRequest
    \/ GetGeocodeFinally

Next == Run(Entities, MaxEntities)

Spec == Init /\ [][Next]_vars

\* the entities of the checkpoint specification: one without a name and the
\* ones of one name
BatchEntities ==
    {e \in Entities : e.name = "youeryuan_jia" \/ (e.name = "" /\ e.address = "")}

\* a run long enough to pass the first checkpoint
NextBatch == Run(BatchEntities, MaxBatchEntities)

\* the run starts from a file that holds the first home address only
InitBatch ==
    InitFrom({File([k \in {HOME_ADDRESSES[1]} |-> CachedEntry("xingqudian")])})

SpecBatch == InitBatch /\ [][NextBatch]_vars

\* the run under its scheduling: the one thread of the script takes its next
\* step as long as it has one
FairSpec == Spec /\ WF_vars(Next)

(***************************************************************************)
(* save_geocodes and load_existing_geocodes on their own: a mapping is     *)
(* saved, loaded back and saved again.                                     *)
(***************************************************************************)
\* the fields an entry of the mapping may carry: canonical ones and a raw one
SaveFields == {"location", "level", "province", "formatted_address"}

\* the value an entry carries under a field
FieldValue(f) ==
    CASE f = "location" -> "113.5,23.1"
      [] f = "level" -> "daolu"
      [] f = "province" -> "guangdong"
      [] f = "formatted_address" -> "guangdong guangzhou huangpu"

\* dictionaries with any of those fields: raw API candidates, cleaned
\* entries, entries without a 'location'
SaveEntries == {[f \in F |-> FieldValue(f)] : F \in SUBSET SaveFields}

\* the mappings handed to save_geocodes
SaveInputs == UNION {[D -> SaveEntries] : D \in SUBSET HomeKeys}

InitSave ==
    /\ geocodes \in SaveInputs
    /\ disk = UnreadableFile
    /\ start = disk
    /\ pc = "save"
    /\ h = 1
    /\ i = 0
    /\ kg = NoEntity
    /\ existing_data = None
    /\ name_result = None
    /\ address_result = None
    /\ geocode_result = None
    /\ site = "none"
    /\ query = ""
    /\ resp = None
    /\ exit_path = "none"
    /\ called = FALSE
    /\ calls = <<>>
    /\ undelayed = 0
    /\ unsaved_age = 0
    /\ seen = {}
    /\ ParseIdle

\* save_geocodes(geocodes)
CallSave ==
    /\ pc = "save"
    /\ disk' = save_geocodes(geocodes)
    /\ pc' = "load"
    /\ UNCHANGED <<geocodes, h, i, kg, existing_data, name_result, address_result,
                   geocode_result, site, query, resp, exit_path, start, called, calls,
                   undelayed, unsaved_age, seen, parse_vars>>

\* geocodes = load_existing_geocodes()
CallLoad ==
    /\ pc = "load"
    /\ geocodes' = load_existing_geocodes(disk)
    /\ pc' = "save_again"
    /\ UNCHANGED <<disk, h, i, kg, existing_data, name_result, address_result,
                   geocode_result, site, query, resp, exit_path, start, called, calls,
                   undelayed, unsaved_age, seen, parse_vars>>

\* save_geocodes(geocodes) on the mapping just loaded
CallSaveAgain ==
    /\ pc = "save_again"
    /\ disk' = save_geocodes(geocodes)
    /\ pc' = "saved_twice"
    /\ UNCHANGED <<geocodes, h, i, kg, existing_data, name_result, address_result,
                   geocode_result, site, query, resp, exit_path, start, called, calls,
                   undelayed, unsaved_age, seen, parse_vars>>

NextSave ==
    \/ CallSave
    \/ CallLoad
    \/ CallSaveAgain

SpecSave == InitSave /\ [][NextSave]_vars

(***************************************************************************)
(* parse_data.py. A text is the sequence of its characters; a Chinese      *)
(* character is written as its pinyin: ban = the class glyph, cheng as in  *)
(* chengzhang ban (growth class); yen, fullyen = the two currency signs;   *)
(* yuan, yue, sheng = the unit words of "yuan per month per pupil".        *)
(***************************************************************************)
\* get_geo.py is not running
GeoIdle ==
    /\ disk = UnreadableFile
    /\ start = disk
    /\ geocodes = EmptyDict
    /\ pc = "idle"
    /\ h = 1
    /\ i = 0
    /\ kg = NoEntity
    /\ existing_data = None
    /\ name_result = None
    /\ address_result = None
    /\ geocode_result = None
    /\ site = "none"
    /\ query = ""
    /\ resp = None
    /\ exit_path = "none"
    /\ called = FALSE
    /\ calls = <<>>
    /\ undelayed = 0
    /\ unsaved_age = 0
    /\ seen = {}

\* all texts over alphabet of length at most n
Texts(alphabet, n) == UNION {[1..len -> alphabet] : len \in 0..n}

\* needle in text (Python's substring test)
Contains(text, needle) ==
    \E p \in 1..(Len(text) - Len(needle) + 1) :
        SubSeq(text, p, p + Len(needle) - 1) = needle

\* text.replace(c, '') for every character c of chars
Remove(text, chars) == SelectSeq(text, LAMBDA c : c \notin chars)

\* [\u4e00-\u9fff]: the CJK characters of the model
CJK == {"cheng", "ban", "yuan", "yue", "sheng"}

\* \d
Digits == {"2"}

\* [:：]
Colons == {":", "fullcolon"}

\* Unicode whitespace, which str.strip() removes at both ends
Whitespace == {" "}

\* str.strip()
RECURSIVE Strip(_)
Strip(text) ==
    IF text = <<>> THEN text
    ELSE IF Head(text) \in Whitespace THEN Strip(Tail(text))
    ELSE IF text[Len(text)] \in Whitespace THEN Strip(SubSeq(text, 1, Len(text) - 1))
    ELSE text

\* the last position of the run of characters of class that starts at p
\* (p - 1 when text[p] is not of class)
RECURSIVE RunEnd(_, _, _)
RunEnd(text, p, class) ==
    IF p <= Len(text) /\ text[p] \in class THEN RunEnd(text, p + 1, class) ELSE p - 1

\* \d+(?:\.\d+)? from position p, on a digit: the last position of the match
NumberEnd(text, p) ==
    LET int_end == RunEnd(text, p, Digits)
    IN  IF int_end + 2 <= Len(text) /\ text[int_end + 1] = "."
           /\ text[int_end + 2] \in Digits
        THEN RunEnd(text, int_end + 2, Digits)
        ELSE int_end

\* re.search(r'(\d+(?:\.\d+)?)', text): group 1 of the first match, '' when
\* there is none
FirstNumber(text) ==
    IF \E p \in 1..Len(text) : text[p] \in Digits
    THEN LET p == CHOOSE q \in 1..Len(text) :
                      /\ text[q] \in Digits
                      /\ \A r \in 1..(q - 1) : text[r] \notin Digits
         IN  SubSeq(text, p, NumberEnd(text, p))
    ELSE <<>>

\* extract_pure_number
extract_pure_number(text) ==
    IF text = <<>> \/ text = <<"N", "o", "n", "e">>
    THEN <<>>
    ELSE FirstNumber(Remove(text, {"yen", "fullyen", ",", "yuan", "/", "yue", "sheng"}))

\* where the number starts when group 1 of the class pattern ends at e:
\* after the optional colon; 0 when no digit follows
FeeStart(text, e) ==
    IF e + 1 <= Len(text) /\ text[e + 1] \in Colons
          /\ e + 2 <= Len(text) /\ text[e + 2] \in Digits
    THEN e + 2
    ELSE IF e + 1 <= Len(text) /\ text[e + 1] \in Digits
    THEN e + 1
    ELSE 0

\* the ends e of group 1 for a match of the class pattern at p: text[p..e] is
\* CJK, has a character before its final ban, and a number follows
ClassEnds(text, p) ==
    {e \in (p + 1)..Len(text) :
        /\ \A j \in p..e : text[j] \in CJK
        /\ text[e] = "ban"
        /\ FeeStart(text, e) # 0}

\* the class pattern matches at p
MatchesAt(text, p) == ClassEnds(text, p) # {}

\* the end of group 1 of the match at p: [CJK]+ is greedy, the longest wins
ClassEnd(text, p) ==
    CHOOSE e \in ClassEnds(text, p) : \A e2 \in ClassEnds(text, p) : e2 <= e

\* re.findall(pattern, text) from position p on: the (class, fee) groups of
\* the non-overlapping matches, left to right
RECURSIVE FindAllFrom(_, _)
FindAllFrom(text, p) ==
    IF p > Len(text) THEN <<>>
    ELSE IF MatchesAt(text, p)
    THEN LET e == ClassEnd(text, p)
             d == FeeStart(text, e)
             f == NumberEnd(text, d)
         IN  <<[class |-> SubSeq(text, p, e), fee |-> SubSeq(text, d, f)]>>
                 \o FindAllFrom(text, f + 1)
    ELSE FindAllFrom(text, p + 1)

\* a wrong version of parse_multi_class_fee: a single match of the class
\* pattern already gives a pair with its class
parse_multi_class_fee_single_match(text) ==
    IF text = <<>>
    THEN <<[class |-> <<>>, fee |-> <<>>]>>
    ELSE LET cleaned_text == Remove(text, {"yen", "fullyen", ","})
             matches == FindAllFrom(cleaned_text, 1)
         IN  IF Len(matches) > 0
             THEN [j \in 1..Len(matches) |->
                      [class |-> Strip(matches[j].class),
                       fee |-> extract_pure_number(Strip(matches[j].fee))]]
             ELSE <<[class |-> <<>>, fee |-> extract_pure_number(text)]>>

\* parse_multi_class_fee
parse_multi_class_fee(text) ==
    IF text = <<>>
    THEN <<[class |-> <<>>, fee |-> <<>>]>>
    ELSE LET cleaned_text == Remove(text, {"yen", "fullyen", ","})
             matches == FindAllFrom(cleaned_text, 1)
         IN  IF Len(matches) > 1
             THEN [j \in 1..Len(matches) |->
                      [class |-> Strip(matches[j].class),
                       fee |-> extract_pure_number(Strip(matches[j].fee))]]
             ELSE <<[class |-> <<>>, fee |-> extract_pure_number(text)]>>

(***************************************************************************)
(* create_kindergarten_entries, fed by parse_multi_class_fee as the        *)
(* ingestors do. The fields of a record stand for the Chinese keys of      *)
(* data/school.json: name = youeryuan mingcheng, office_nature = banyuan   *)
(* xingzhi, is_inclusive = shifou puhui, scale = guimo, address = dizhi,   *)
(* fee = baojiaofei shoufei biaozhun, phone = lianxi dianhua.              *)
(***************************************************************************)
\* the characters of the fee texts
FeeAlphabet == {"cheng", "ban", "2", ".", "yen"}

\* the fee texts of a source row
FeeTexts == Texts(FeeAlphabet, MaxFeeLen)

\* the names of a source row
RowNames == {<<"hong", "xing", "you", "er", "yuan2">>}

\* base_data as the ingestors build it
BaseData(name, fee) ==
    [name |-> name, office_nature |-> <<"gong", "ban4">>, is_inclusive |-> "shi",
     scale |-> <<"9">>, address |-> <<"huang", "pu">>, fee |-> fee,
     phone |-> <<"0", "2", "0">>]

\* the body of the loop of create_kindergarten_entries: the copy of base_data
\* with the fee of the pair and, for a pair with a class, the name
\* "<name>(<class>)" in full-width parentheses
Entry(base, fee_class) ==
    LET with_fee == [base EXCEPT !.fee = fee_class.fee]
    IN  IF fee_class.class # <<>>
        THEN [with_fee EXCEPT
                 !.name = base.name \o <<"fullparen_open">> \o fee_class.class
                              \o <<"fullparen_close">>]
        ELSE with_fee

\* one source row, cleaned, before its fee text is parsed
InitExpand ==
    /\ GeoIdle
    /\ ppc = "row"
    /\ fee_text \in FeeTexts
    /\ \E name \in RowNames : base_data = BaseData(name, fee_text)
    /\ fee_classes = <<>>
    /\ entries = <<>>
    /\ office_nature = <<>>
    /\ is_inclusive = <<>>

\* fee_classes = parse_multi_class_fee(fee)
ParseFee ==
    /\ ppc = "row"
    /\ fee_classes' = parse_multi_class_fee(fee_text)
    /\ entries' = <<>>
    /\ ppc' = "expand"
    /\ UNCHANGED <<geo_vars, office_nature, is_inclusive, fee_text, base_data>>

\* a wrong version of ExpandEntry: entry = base_data without the copy, so the
\* updates land in base_data and every element of entries is that one record
ExpandEntryNoCopy ==
    /\ ppc = "expand"
    /\ Len(entries) < Len(fee_classes)
    /\ base_data' = Entry(base_data, fee_classes[Len(entries) + 1])
    /\ entries' = [j \in 1..(Len(entries) + 1) |-> base_data']
    /\ UNCHANGED <<geo_vars, ppc, office_nature, is_inclusive, fee_text, fee_classes>>

\* one iteration of the loop of create_kindergarten_entries
ExpandEntry ==
    /\ ppc = "expand"
    /\ Len(entries) < Len(fee_classes)
    /\ entries' = Append(entries, Entry(base_data, fee_classes[Len(entries) + 1]))
    /\ UNCHANGED <<geo_vars, ppc, office_nature, is_inclusive, fee_text, fee_classes,
                   base_data>>

\* return entries
ExpandReturn ==
    /\ ppc = "expand"
    /\ Len(entries) = Len(fee_classes)
    /\ ppc' = "expanded"
    /\ UNCHANGED <<geo_vars, office_nature, is_inclusive, fee_text, fee_classes,
                   base_data, entries>>

NextExpand ==
    \/ ParseFee
    \/ ExpandEntry
    \/ ExpandReturn

SpecExpand == InitExpand /\ [][NextExpand]_vars

(***************************************************************************)
(* The inclusiveness rule of the three ingest paths. gong ban4 = publicly  *)
(* run, min ban4 = privately run, pu hui = inclusive, xing = -ness,        *)
(* yuan2 = kindergarten; shi = yes, fou = no.                              *)
(***************************************************************************)
\* the substrings the rules look for
GongBan == <<"gong", "ban4">>
MinBan == <<"min", "ban4">>
PuHui == <<"pu", "hui">>
MinBanPuHui == <<"min", "ban4", "pu", "hui">>
PuHuiXingMinBanYuan == <<"pu", "hui", "xing", "min", "ban4", "yuan2">>

\* the words nature texts are made of
NatureWords == {GongBan, MinBan, PuHui, <<"pu", "hui", "xing">>, <<"yuan2">>}

\* the concatenation of a sequence of texts
RECURSIVE Flatten(_)
Flatten(words) == IF words = <<>> THEN <<>> ELSE Head(words) \o Flatten(Tail(words))

\* the nature texts of a source row
Natures == {Flatten(ws) : ws \in Texts(NatureWords, MaxNatureWords)}

\* parse_csv_file
CsvInclusive(nature) ==
    IF Contains(nature, MinBan)
    THEN IF Contains(nature, PuHuiXingMinBanYuan) THEN "shi" ELSE "fou"
    ELSE "shi"

\* parse_pdf_file, rows of an extracted table
PdfTableInclusive(nature) ==
    IF Contains(nature, MinBan)
    THEN IF Contains(nature, PuHui) \/ Contains(nature, MinBanPuHui) THEN "shi" ELSE "fou"
    ELSE "shi"

\* parse_pdf_file, text lines: office_nature is the part that names gong ban4
\* or min ban4, '' when the part does not
TextLineNature(part) ==
    IF Contains(part, GongBan) \/ Contains(part, MinBan) THEN part ELSE <<>>

\* parse_pdf_file, text lines
PdfTextInclusive(nature) ==
    IF Contains(nature, MinBan)
    THEN IF Contains(nature, PuHui) THEN "shi" ELSE "fou"
    ELSE "shi"

\* one source row with its nature text, before any path has read it
InitIngest ==
    /\ GeoIdle
    /\ ppc = "ingest"
    /\ office_nature \in Natures
    /\ is_inclusive = EmptyDict
    /\ fee_text = <<>>
    /\ fee_classes = <<>>
    /\ base_data = <<>>
    /\ entries = <<>>

\* the row is read by parse_csv_file
IngestCsv ==
    /\ ppc = "ingest"
    /\ "csv" \notin DOMAIN is_inclusive
    /\ is_inclusive' = Put(is_inclusive, "csv", CsvInclusive(office_nature))
    /\ UNCHANGED <<geo_vars, ppc, office_nature, fee_text, fee_classes, base_data,
                   entries>>

\* the row is read by parse_pdf_file from a table
IngestPdfTable ==
    /\ ppc = "ingest"
    /\ "pdf_table" \notin DOMAIN is_inclusive
    /\ is_inclusive' = Put(is_inclusive, "pdf_table", PdfTableInclusive(office_nature))
    /\ UNCHANGED <<geo_vars, ppc, office_nature, fee_text, fee_classes, base_data,
                   entries>>

\* the row is read by parse_pdf_file from a text line
IngestPdfText ==
    /\ ppc = "ingest"
    /\ "pdf_text" \notin DOMAIN is_inclusive
    /\ is_inclusive' =
           Put(is_inclusive, "pdf_text", PdfTextInclusive(TextLineNature(office_nature)))
    /\ UNCHANGED <<geo_vars, ppc, office_nature, fee_text, fee_classes, base_data,
                   entries>>

NextIngest ==
    \/ IngestCsv
    \/ IngestPdfTable
    \/ IngestPdfText

SpecIngest == InitIngest /\ [][NextIngest]_vars

(***************************************************************************)
(* Vocabulary of the properties.                                           *)
(***************************************************************************)
\* the cache the run started from
StartCache == load_existing_geocodes(start)

\* an entry exists under key and its level is on the allow-list
HasAcceptable(cache, key) ==
    /\ key \in DOMAIN cache
    /\ InPreciseLevels(Get(cache[key], "level", ""))

\* an entry read through its five canonical fields
Five(data) == [f \in CanonicalFields |-> Get(data, f, "")]

\* control is inside the loop body of geocode_kindergartens, past the lookup
InKgBody ==
    \/ pc \in {"name_ret", "address_ret", "kg_store"}
    \/ pc \in {"request", "finally"} /\ site \in {"name", "address"}

(***************************************************************************)
(* C1. Idempotence of a run over a warm cache.                             *)
(***************************************************************************)
\* C1 as stated: when every entry of the cache the run starts from has an
\* acceptable level, the run (home pass, then kindergarten pass) sends no
\* external request.
C1_AsStated ==
    (\A k \in DOMAIN StartCache : HasAcceptable(StartCache, k)) => ~called

\* C1 as amended: when the cache the run starts from holds an entry of
\* acceptable level for every home address and for every named entity the
\* kindergarten pass has taken, no external request has been sent.
C1_WarmCacheNoCalls ==
    (\A k \in HomeKeys \cup seen : HasAcceptable(StartCache, k)) => ~called

\* a finished run over a warm cache that took two named entities
C1_Witness ==
    /\ pc = "done"
    /\ i = 2
    /\ Cardinality(seen) = 2
    /\ \A k \in HomeKeys \cup seen : HasAcceptable(StartCache, k)
    /\ ~called

(***************************************************************************)
(* C2. Checkpoints of the kindergarten pass.                               *)
(***************************************************************************)
\* C2: the cache is saved after every batch of 50 entities, so at any point
\* of the loop a result that is in memory and not yet in the file was stored
\* at most one batch ago (no more than 50 entities have been processed since,
\* its own included), whatever the 50th, 100th, ... entity is.
C2_AtMostOneBatchUnsaved == unsaved_age <= BatchSize

(***************************************************************************)
(* C3. The delay after every external request.                             *)
(***************************************************************************)
\* C3: every external request is followed by the delay before get_geocode
\* returns, on each of its exit paths: outside the window between a request
\* and its finally block no request is left without its delay, so a request
\* never starts with an undelayed request before it.
C3_DelayAfterEveryCall ==
    /\ undelayed <= 1
    /\ pc # "finally" => undelayed = 0

\* the address query, the second request of one resolution, has just failed
\* with an exception and its delay is due
C3_Witness ==
    /\ pc = "finally"
    /\ site = "address"
    /\ exit_path = "except"
    /\ undelayed = 1

(***************************************************************************)
(* C4. The result of geocode_with_fallback.                                *)
(***************************************************************************)
\* the result the claim names, from the outcomes of the two queries
C4_Expected ==
    IF name_result # None /\ InPreciseLevels(Get(name_result, "level", ""))
    THEN name_result
    ELSE IF kg.address # "" /\ address_result # None
    THEN address_result
    ELSE IF name_result # None
    THEN name_result
    ELSE None

\* C4: geocode_with_fallback returns the name result when its level is
\* acceptable; otherwise the address result when the address is non-empty and
\* the address query returned a result of any level; otherwise the
\* unacceptable name result when there is one; otherwise None.
C4_FallbackResult == pc = "kg_store" => geocode_result = C4_Expected

\* both queries returned a result of unacceptable level and the address
\* result is the one returned
C4_Witness ==
    /\ pc = "kg_store"
    /\ name_result # None
    /\ address_result # None
    /\ ~InPreciseLevels(name_result.level)
    /\ ~InPreciseLevels(address_result.level)
    /\ geocode_result = address_result
    /\ geocode_result # name_result

(***************************************************************************)
(* C5. Acceptable entries are preserved.                                   *)
(***************************************************************************)
\* every acceptable entry of old is in new with the same five fields
PreservedIn(old, new) ==
    \A k \in DOMAIN old :
        InPreciseLevels(Get(old[k], "level", ""))
            => k \in DOMAIN new /\ Five(new[k]) = Five(old[k])

\* C5: once a key maps to a result of acceptable level, every step of the
\* run keeps that result (its five canonical fields) under that key, in the
\* in-memory mapping and in the file, and every save writes it.
C5_AcceptablePreserved ==
    [][/\ PreservedIn(geocodes, geocodes')
       /\ PreservedIn(disk.content, disk'.content)
       /\ disk' # disk => PreservedIn(geocodes', disk'.content)]_vars

\* the second of two entities of one name is a cache hit on the acceptable
\* result the first one won in this run
C5_Witness ==
    /\ pc = "kg_loop"
    /\ i = 2
    /\ Cardinality(seen) = 1
    /\ existing_data # None
    /\ Get(existing_data, "location", "") = kg.name
    /\ HasAcceptable(geocodes, kg.name)
    /\ geocodes[kg.name] = existing_data

(***************************************************************************)
(* C6. The effect of one kindergarten iteration on the cache.              *)
(***************************************************************************)
\* C6: while an entity is being resolved the mapping does not change; when
\* its resolution returns, a result replaces or creates the entry under the
\* entity's name, no result leaves the mapping as it is (an old entry stays,
\* a missing key stays missing), and no other key changes.
C6_FrameOfOneEntity ==
    [][InKgBody =>
         /\ \A k \in (DOMAIN geocodes \cup DOMAIN geocodes') \ {kg.name} :
                k \in DOMAIN geocodes /\ k \in DOMAIN geocodes'
                    /\ geocodes'[k] = geocodes[k]
         /\ pc # "kg_store" => geocodes' = geocodes
         /\ pc = "kg_store" /\ geocode_result # None
                => kg.name \in DOMAIN geocodes'
                    /\ geocodes'[kg.name] = geocode_result
         /\ pc = "kg_store" /\ geocode_result = None
                => geocodes' = geocodes]_vars

\* the re-resolution of an imprecisely cached entity failed and its old entry
\* is still there
C6_Witness ==
    /\ pc = "kg_loop"
    /\ i = 1
    /\ existing_data # None
    /\ geocode_result = None
    /\ kg.name \in DOMAIN geocodes
    /\ geocodes[kg.name] = existing_data
    /\ ~InPreciseLevels(existing_data.level)

(***************************************************************************)
(* C7. The projection of save_geocodes and the load/save round trip.       *)
(***************************************************************************)
\* every entry of the file holds canonical fields only
C7_OnlyCanonicalFields ==
    pc \in {"load", "save_again", "saved_twice"}
        => \A k \in DOMAIN disk.content : DOMAIN disk.content[k] \subseteq CanonicalFields

\* saving what was loaded from a saved file writes the same file
C7_RoundTripFixedPoint == pc = "save_again" => disk' = disk

\* C7: save_geocodes writes, for every entry of any mapping (entries with
\* raw API fields and entries without a 'location' included), only the five
\* canonical fields; and load followed by save of a saved cache writes the
\* same file again.
C7_ProjectionAndFixedPoint ==
    /\ []C7_OnlyCanonicalFields
    /\ [][C7_RoundTripFixedPoint]_vars

(***************************************************************************)
(* C8. Failed requests do not end the batch.                               *)
(***************************************************************************)
\* a request that failed is a None for its caller
C8_FailureIsNoResult ==
    pc = "finally" /\ exit_path \in {"return_none", "except"} => resp = None

\* the run goes on from every position but the end
C8_NeverAborted == pc # "done" => ENABLED Next

\* the final save has been done when the run has ended
C8_FinalSaveDone == pc = "done" => disk = save_geocodes(geocodes)

\* the loop leaves its head either with a cache hit or an entity without a
\* name (on to the next entity), or into the name query of a resolution, or
\* into the end of the run
C8_EveryEntityHandled ==
    pc = "kg_loop" /\ pc' # "kg_loop"
        => \/ pc' = "done"
           \/ pc' = "request" /\ site' = "name" /\ query' = kg'.name /\ kg'.name # ""

\* after a name query that gave nothing acceptable the address tier follows
\* when there is an address, and the entity is given up (or falls back on the
\* imprecise name result) when there is none; the loop then goes on
C8_NextTierOrGiveUp ==
    /\ pc = "name_ret" /\ ~NameAcceptable(resp) /\ kg.address # ""
           => pc' = "request" /\ site' = "address"
    /\ pc = "name_ret" /\ ~NameAcceptable(resp) /\ kg.address = ""
           => pc' = "kg_store" /\ geocode_result' = LastResort(resp)
    /\ pc = "kg_store" => pc' = "kg_loop" /\ i' = i + 1

\* C8: a failed request (exception, timeout, non-success status, no
\* candidate) is a no-result for its tier; resolution goes on to the address
\* tier or gives the entity up, the loop goes on with the next entity, the
\* run is never aborted, every named entity is a cache hit or has its
\* resolution attempted, and the run ends with the final save.
C8_ErrorsDoNotAbort ==
    /\ [](C8_FailureIsNoResult /\ C8_NeverAborted /\ C8_FinalSaveDone)
    /\ [][C8_EveryEntityHandled /\ C8_NextTierOrGiveUp]_vars
    /\ <>(pc = "done")

\* a run in which every request failed with an exception has ended: both
\* home addresses and both entities were tried, nothing was stored
C8_Witness ==
    /\ pc = "done"
    /\ i = 2
    /\ Cardinality(seen) = 2
    /\ called
    /\ geocodes = EmptyDict
    /\ disk = save_geocodes(EmptyDict)
    /\ start = UnreadableFile

\* (the round trip alone, which the code does keep)
RoundTripAlone == [][C7_RoundTripFixedPoint]_vars

(***************************************************************************)
(* C9. Expansion of one source row.                                        *)
(***************************************************************************)
\* entry j is the copy of base_data for pair j: the fee of the pair, the
\* name with the class in full-width parentheses when the pair has a class
\* and the name itself when it has none, every other field as in base_data
C9_EntryOfPair(j) ==
    LET entry == entries[j]
        pair == fee_classes[j]
    IN  /\ entry.fee = pair.fee
        /\ pair.class # <<>> =>
               entry.name = base_data.name \o <<"fullparen_open">> \o pair.class
                                \o <<"fullparen_close">>
        /\ pair.class = <<>> => entry.name = base_data.name
        /\ \A f \in DOMAIN base_data \ {"fee", "name"} : entry[f] = base_data[f]
        /\ DOMAIN entry = DOMAIN base_data

\* what C9 and its amended form share
C9_Common ==
    /\ ppc = "expand" => Len(entries) <= Len(fee_classes)
    /\ ppc = "expanded" => Len(entries) = Len(fee_classes)
    /\ ppc \in {"expand", "expanded"} =>
           /\ \A j \in 1..Len(entries) : C9_EntryOfPair(j)
           /\ Len(fee_classes) > 1 => \A j \in 1..Len(fee_classes) : fee_classes[j].class # <<>>
           /\ base_data = BaseData(base_data.name, fee_text)

\* C9 as stated: N pairs give N entities in the order of the pairs, each the
\* copy of the record with the pair's fee and class suffix, the record itself
\* unchanged; and when N > 1 the names of any two entities differ.
C9_AsStated ==
    /\ C9_Common
    /\ ppc = "expanded" /\ Len(entries) > 1 =>
           \A j, k \in 1..Len(entries) : j # k => entries[j].name # entries[k].name

\* C9 as amended: as stated, but when N > 1 the names of two entities differ
\* when their class names differ.
C9_ExpansionOfPairs ==
    /\ C9_Common
    /\ ppc = "expanded" /\ Len(entries) > 1 =>
           \A j, k \in 1..Len(entries) :
               fee_classes[j].class # fee_classes[k].class
                   => entries[j].name # entries[k].name

\* a row with two classes has been expanded into two entities of different
\* names
C9_Witness ==
    /\ ppc = "expanded"
    /\ Len(entries) = 2
    /\ fee_classes[1].class # fee_classes[2].class
    /\ entries[1].name # entries[2].name
    /\ entries[1].fee = <<"2">>

(***************************************************************************)
(* C10. One inclusiveness rule for the three ingest paths.                 *)
(***************************************************************************)
\* the marker C10 names: min ban4 pu hui xing min ban4 yuan2
C10_Marker == MinBan \o PuHuiXingMinBanYuan

\* the flag C10 gives a nature text
C10_Flag(nature) ==
    IF Contains(nature, C10_Marker) THEN "shi"
    ELSE IF Contains(nature, MinBan) THEN "fou"
    ELSE "shi"

\* C10: every ingest path gives a nature text the flag shi when the text has
\* the marker, fou when it has min ban4 without the marker, shi when it has
\* no min ban4; so the three paths give one text one flag.
C10_SharedRule ==
    /\ \A path \in DOMAIN is_inclusive : is_inclusive[path] = C10_Flag(office_nature)
    /\ \A p1, p2 \in DOMAIN is_inclusive : is_inclusive[p1] = is_inclusive[p2]

(***************************************************************************)
(* C11. parse_multi_class_fee is total and never returns an empty list.    *)
(***************************************************************************)
\* the matches of the class pattern in the fee text, found as the code finds
\* them: in the text without currency signs and commas
C11_Matches == FindAllFrom(Remove(fee_text, {"yen", "fullyen", ","}), 1)

\* the fee text has been parsed
C11_Parsed == ppc \in {"expand", "expanded"}

\* what C11 and its amended form share: the call returns for every text, the
\* list is never empty, the empty text gives the one empty pair, and two or
\* more matches give one pair per match, in match order, with its class
C11_Common ==
    /\ ppc = "row" => Len(parse_multi_class_fee(fee_text)) >= 1
    /\ C11_Parsed =>
           /\ Len(fee_classes) >= 1
           /\ fee_text = <<>> => fee_classes = <<[class |-> <<>>, fee |-> <<>>]>>
           /\ Len(C11_Matches) >= 2 =>
                  /\ Len(fee_classes) = Len(C11_Matches)
                  /\ \A j \in 1..Len(fee_classes) :
                         /\ fee_classes[j] = C11_Matches[j]
                         /\ fee_classes[j].class # <<>>
           /\ Len(C11_Matches) <= 1 =>
                  /\ Len(fee_classes) = 1
                  /\ fee_classes[1].class = <<>>

\* C11 as stated: parse_multi_class_fee never fails and never returns an
\* empty list; the empty text gives one empty pair; two or more matches give
\* one pair per match in match order, each with a class; zero or one match
\* gives one pair without class whose fee is the first numeric token of the
\* input, or empty.
C11_AsStated ==
    /\ C11_Common
    /\ C11_Parsed /\ Len(C11_Matches) <= 1 =>
           fee_classes[1].fee = FirstNumber(fee_text)

\* C11 as amended: as stated, but with zero or one match the fee is the first
\* numeric token of the input after the currency signs, commas, slashes and
\* the unit words yuan, yue and sheng have been removed from it, or empty.
C11_TotalAndNonEmpty ==
    /\ C11_Common
    /\ C11_Parsed /\ Len(C11_Matches) <= 1 =>
           fee_classes[1].fee =
               FirstNumber(Remove(fee_text,
                   {"yen", "fullyen", ",", "yuan", "/", "yue", "sheng"}))

\* a text with one match of the class pattern and a currency sign has been
\* parsed into one pair without class and with a fee
C11_Witness ==
    /\ C11_Parsed
    /\ Len(C11_Matches) = 1
    /\ Contains(fee_text, <<"yen">>)
    /\ Len(fee_classes) = 1
    /\ fee_classes[1].fee # <<>>

(***************************************************************************)
(* C12. Order and number of the queries of one geocode_with_fallback.      *)
(***************************************************************************)
\* the name result is there and its level is on the allow-list
C12_NameResultAcceptable ==
    /\ name_result # None
    /\ Get(name_result, "level", "") \in {PRECISE_LEVELS[n] : n \in DOMAIN PRECISE_LEVELS}

\* the two queries a resolution can send, in their order
C12_Queries ==
    <<[site |-> "name", query |-> kg.name], [site |-> "address", query |-> kg.address]>>

\* C12: inside one geocode_with_fallback the name query comes first; the
\* address query comes only after a name query that gave no result or one of
\* unacceptable level, and only for a non-empty address; nothing is sent after
\* an acceptable name result; so the resolution sends one or two queries, the
\* second only once the first and its delay are over.
C12_OneOrTwoCallsInOrder ==
    InKgBody =>
        /\ Len(calls) <= 2
        /\ calls = SubSeq(C12_Queries, 1, Len(calls))
        /\ Len(calls) = 2 => kg.address # "" /\ ~C12_NameResultAcceptable
        /\ pc = "request" =>
               /\ undelayed = 0
               /\ site = "name" => calls = <<>>
               /\ site = "address" =>
                      Len(calls) = 1 /\ kg.address # "" /\ ~C12_NameResultAcceptable
        /\ pc = "kg_store" =>
               /\ Len(calls) \in {1, 2}
               /\ C12_NameResultAcceptable => Len(calls) = 1

\* a resolution has ended after its two queries, the name query having given
\* a result of unacceptable level
C12_Witness ==
    /\ pc = "kg_store"
    /\ Len(calls) = 2
    /\ name_result # None

(***************************************************************************)
(* C13. The home-address pass and its place before the kindergarten pass.  *)
(***************************************************************************)
\* control is in geocode_home_addresses, past its load
C13_InHomePass ==
    \/ pc \in {"home_loop", "home_ret"}
    \/ pc \in {"request", "finally"} /\ site = "home"

\* control is in geocode_kindergartens, past its load, or behind it
C13_InKgPass == pc \in {"kg_loop", "done"} \/ InKgBody

\* the home addresses the run found cached
C13_CachedHomes == HomeKeys \cap DOMAIN StartCache

\* the states of C13
C13_State ==
    /\ C13_InHomePass =>
           /\ i = 0 /\ seen = {} /\ kg = NoEntity
           /\ disk = start
           /\ \A k \in C13_CachedHomes : k \in DOMAIN geocodes /\ geocodes[k] = StartCache[k]
           /\ Len(calls) <= 1
           /\ pc # "home_loop" =>
                  /\ HOME_ADDRESSES[h] \notin DOMAIN StartCache
                  /\ calls = IF pc = "request"
                             THEN <<>>
                             ELSE <<[site |-> "home", query |-> HOME_ADDRESSES[h]]>>
    /\ pc = "kindergartens" =>
           /\ h = Len(HOME_ADDRESSES) + 1
           /\ i = 0 /\ seen = {} /\ kg = NoEntity
           /\ disk.readable
           /\ DOMAIN disk.content = DOMAIN geocodes
           /\ \A k \in DOMAIN geocodes : disk.content[k] = Five(geocodes[k])
           /\ \A k \in C13_CachedHomes : disk.content[k] = StartCache[k]
    /\ C13_InKgPass => h = Len(HOME_ADDRESSES) + 1 /\ disk.readable

\* the steps of C13
C13_Step ==
    /\ pc = "home_loop" /\ h <= Len(HOME_ADDRESSES) =>
           IF HOME_ADDRESSES[h] \in DOMAIN geocodes
           THEN /\ pc' = "home_loop" /\ h' = h + 1
                /\ geocodes' = geocodes /\ disk' = disk
                /\ calls' = calls /\ called' = called
           ELSE /\ pc' = "request" /\ site' = "home" /\ query' = HOME_ADDRESSES[h]
                /\ geocodes' = geocodes
    /\ pc = "home_ret" =>
           /\ pc' = "home_loop" /\ h' = h + 1
           /\ geocodes' =
                  IF resp = None
                  THEN geocodes
                  ELSE [k \in DOMAIN geocodes \cup {HOME_ADDRESSES[h]} |->
                           IF k = HOME_ADDRESSES[h] THEN resp ELSE geocodes[k]]
    /\ pc = "kindergartens" =>
           /\ pc' = "kg_loop"
           /\ disk' = disk
           /\ geocodes' = disk.content

\* C13: a home address with a cache entry, of whatever level, causes no query
\* and keeps its entry; one without is resolved by exactly one query of the
\* address itself and inserted only when a result comes back; the pass ends
\* with a save before the kindergarten pass looks anything up, and the
\* kindergarten pass starts from the saved cache.
C13_HomePassFirst == []C13_State /\ [][C13_Step]_vars

\* the home pass has ended: the first address was cached at an unacceptable
\* level and kept its entry, the second was not cached and has been resolved
\* and saved
C13_Witness ==
    /\ pc = "kindergartens"
    /\ HOME_ADDRESSES[1] \in DOMAIN StartCache
    /\ StartCache[HOME_ADDRESSES[1]].level = "daolu"
    /\ disk.content[HOME_ADDRESSES[1]] = StartCache[HOME_ADDRESSES[1]]
    /\ HOME_ADDRESSES[2] \notin DOMAIN StartCache
    /\ HOME_ADDRESSES[2] \in DOMAIN disk.content
    /\ called

====
